---------------------------- MODULE Spec2Model ----------------------------
(***************************************************************************)
(* Model of the Flask text-to-speech starter (src/app.py): the in-memory   *)
(* nonce store, the session issuer (GET /api/session), the session         *)
(* verifier (require_session) and the synthesis handler                    *)
(* (POST /api/text-to-speech), run by concurrent request threads.          *)
(*                                                                         *)
(* Time.  time.time() is a float number of seconds.  The model's clock     *)
(* counts ticks of 1/TicksPerSecond second, so int(time.time()) is a real  *)
(* floor (clock \div TicksPerSecond) and not the identity.                 *)
(*                                                                         *)
(* Strings.  A string is a sequence.  A nonce is the one-element string    *)
(* <<n>>, the empty string is <<>>.  A text is a sequence of runs          *)
(* [c, n] (character c repeated n times), so that texts of 2001            *)
(* characters stay small values.                                           *)
(*                                                                         *)
(* Specifications.  Spec runs the requests on concurrent threads, their    *)
(* steps interleaved; SpecSeq serves them one after the other, for the     *)
(* properties of a sequence of calls on the nonce store.                   *)
(***************************************************************************)
EXTENDS Integers, Sequences, FiniteSets, TLC

\* ------------------------------------------------------------------ bounds
\* Request threads are the members of 1..NumThreads.
NumThreads == 2
\* Nonce values token_hex can return are <<1>> .. <<MaxNonces>>.
MaxNonces == 3
\* Requests started over a run.
MaxRequests == 3
\* Times the clock advances over a run.
MaxAdvances == 1
\* Clock ticks per second.
TicksPerSecond == 2

\* ------------------------------------------------------- program constants
NONCE_TTL == 300
JWT_EXPIRY == 3600
MAX_TEXT_LENGTH == 2000
BEARER_LEN == 7

SESSION_SECRET == "session_secret"
OTHER_SECRET == "other_secret"

Threads == 1..NumThreads
NonceIds == 1..MaxNonces

\* ------------------------------------------------------------------- time
\* int(x) of a float number of seconds given in ticks: the floor.
IntOf(ticks) == ticks \div TicksPerSecond
\* A number of seconds as ticks.
Secs(s) == s * TicksPerSecond
\* The amounts by which one clock advance moves the clock: a fraction of a
\* second, one second, the nonce lifetime and one tick less, the token
\* lifetime and one second more.
TickSteps ==
    {1, Secs(1), Secs(NONCE_TTL) - 1, Secs(NONCE_TTL), Secs(JWT_EXPIRY),
     Secs(JWT_EXPIRY + 1)}

\* ------------------------------------------------------------ dict (store)
\* A Python dict keeps its entries in an insertion-ordered array; a deleted
\* entry leaves a dummy slot behind until the next resize compacts the array.
Dummy == [k |-> <<>>, v |-> 0, live |-> FALSE]
Entry(k, v) == [k |-> k, v |-> v, live |-> TRUE]

LiveIdx(d) == {i \in 1..Len(d) : d[i].live}
\* len(d): ma_used.
Used(d) == Cardinality(LiveIdx(d))
Keys(d) == {d[i].k : i \in LiveIdx(d)}
HasKey(d, k) == k \in Keys(d)
IdxOf(d, k) == CHOOSE i \in LiveIdx(d) : d[i].k = k
Get(d, k) == d[IdxOf(d, k)].v
\* del d[k]: the slot becomes a dummy.
DelItem(d, k) == [d EXCEPT ![IdxOf(d, k)] = Dummy]
\* The array with its dummies squeezed out (what a resize leaves).
RECURSIVE Compact(_)
Compact(d) ==
    IF d = <<>> THEN <<>>
    ELSE IF Head(d).live THEN <<Head(d)>> \o Compact(Tail(d))
    ELSE Compact(Tail(d))
\* d[k] = v, for a key or a new key; a new key is appended, after a resize
\* when the array has no free slot left (resize tells which).
SetItem(d, k, v, resize) ==
    IF HasKey(d, k) THEN [d EXCEPT ![IdxOf(d, k)] = Entry(k, v)]
    ELSE IF resize THEN Append(Compact(d), Entry(k, v))
    ELSE Append(d, Entry(k, v))
\* The index of the first live entry at or after position pos (0-based
\* di_pos), or 0 when there is none.
NextLive(d, pos) ==
    IF \E i \in LiveIdx(d) : i > pos
    THEN CHOOSE i \in LiveIdx(d) : i > pos /\ \A j \in LiveIdx(d) : j > pos => i <= j
    ELSE 0

\* ------------------------------------------------------------------- JWT
\* A token is its three segments <<header, payload, signature>>.  The
\* signature is an ideal MAC: it names the key and the signed segments, so
\* it verifies under a key exactly when it was made with that key over
\* these segments.
JoseHeader(alg) == [alg |-> alg]
Sign(header, payload, key) == [key |-> key, msg |-> <<header, payload>>]
NoSignature == [key |-> "", msg |-> <<>>]
\* jwt.encode(payload, key, algorithm="HS256")
jwt_encode(payload, key) ==
    <<JoseHeader("HS256"), payload, Sign(JoseHeader("HS256"), payload, key)>>

\* Mutant of jwt_decode: the expiry is looked at before the signature.
jwt_decode_exp_first(token, key, now) ==
    IF Len(token) # 3 THEN "DecodeError"
    ELSE IF token[1].alg # "HS256" THEN "InvalidAlgorithmError"
    ELSE IF "exp" \in DOMAIN token[2] /\ Secs(token[2].exp) <= now
         THEN "ExpiredSignatureError"
    ELSE IF token[3] # Sign(token[1], token[2], key) THEN "InvalidSignatureError"
    ELSE "ok"
\* Mutant of jwt_decode: a token is still good at its expiry instant.
jwt_decode_late(token, key, now) ==
    IF Len(token) # 3 THEN "DecodeError"
    ELSE IF token[1].alg # "HS256" THEN "InvalidAlgorithmError"
    ELSE IF token[3] # Sign(token[1], token[2], key) THEN "InvalidSignatureError"
    ELSE IF "exp" \in DOMAIN token[2] /\ Secs(token[2].exp) < now
         THEN "ExpiredSignatureError"
    ELSE "ok"
\* Mutant of jwt_decode: the signature is not verified.
jwt_decode_unverified(token, key, now) ==
    IF Len(token) # 3 THEN "DecodeError"
    ELSE IF token[1].alg # "HS256" THEN "InvalidAlgorithmError"
    ELSE IF "exp" \in DOMAIN token[2] /\ Secs(token[2].exp) <= now
         THEN "ExpiredSignatureError"
    ELSE "ok"
\* jwt.decode(token, key, algorithms=["HS256"]) at time now (ticks): "ok" or
\* the name of the exception it raises.  PyJWT checks, in this order, the
\* segments, the algorithm, the signature, then the registered claims iat
\* (not in the future) and exp (expired when exp <= now).
jwt_decode(token, key, now) ==
    IF Len(token) # 3 THEN "DecodeError"
    ELSE IF token[1].alg # "HS256" THEN "InvalidAlgorithmError"
    ELSE IF token[3] # Sign(token[1], token[2], key) THEN "InvalidSignatureError"
    ELSE IF "iat" \in DOMAIN token[2] /\ Secs(token[2].iat) > now
         THEN "ImmatureSignatureError"
    ELSE IF "exp" \in DOMAIN token[2] /\ Secs(token[2].exp) <= now
         THEN "ExpiredSignatureError"
    ELSE "ok"

\* ------------------------------------------------------------ HTTP headers
\* request.headers: a function from the names of the headers present to
\* their values.
NoHeaders == [h \in {} |-> <<>>]
Header(name, value) == [h \in {name} |-> value]
\* The headers h and one more.
WithHeader(h, name, value) ==
    [n \in DOMAIN h \cup {name} |-> IF n = name THEN value ELSE h[n]]
\* "Bearer " and two prefixes that are not it, one character per element.
BearerPrefix == <<"B", "e", "a", "r", "e", "r", " ">>
LowerPrefix == <<"b", "e", "a", "r", "e", "r", " ">>
BearerNoSpace == <<"B", "e", "a", "r", "e", "r">>
\* Mutant of StartsWithBearer: the scheme is compared without regard to case.
StartsWithBearerAnyCase(auth_header) ==
    /\ Len(auth_header) >= BEARER_LEN
    /\ SubSeq(auth_header, 1, BEARER_LEN) \in {BearerPrefix, LowerPrefix}
\* auth_header.startswith("Bearer ")
StartsWithBearer(auth_header) ==
    /\ Len(auth_header) >= BEARER_LEN
    /\ SubSeq(auth_header, 1, BEARER_LEN) = BearerPrefix
\* Mutant of TokenOf: the slice starts one character early, at the space.
TokenOfFromSpace(auth_header) == SubSeq(auth_header, BEARER_LEN, Len(auth_header))
\* auth_header[7:]
TokenOf(auth_header) == SubSeq(auth_header, BEARER_LEN + 1, Len(auth_header))

\* ----------------------------------------------------------------- texts
IsSpace(c) == c \in {" ", "\t", "\n"}
Run(c, n) == [c |-> c, n |-> n]
RECURSIVE StrLen(_)
\* len(text)
StrLen(text) == IF text = <<>> THEN 0 ELSE Head(text).n + StrLen(Tail(text))
RECURSIVE LStrip(_)
LStrip(text) ==
    IF text = <<>> THEN <<>>
    ELSE IF Head(text).n = 0 \/ IsSpace(Head(text).c) THEN LStrip(Tail(text))
    ELSE text
RECURSIVE RStrip(_)
RStrip(text) ==
    IF text = <<>> THEN <<>>
    ELSE IF text[Len(text)].n = 0 \/ IsSpace(text[Len(text)].c)
         THEN RStrip(SubSeq(text, 1, Len(text) - 1))
    ELSE text
\* text.strip()
Strip(text) == RStrip(LStrip(text))

\* -------------------------------------------------------------- responses
Resp(status, type, code, message, payload) ==
    [status |-> status, type |-> type, code |-> code, message |-> message,
     payload |-> payload]
NoResp == Resp(0, "", "", "", <<>>)
\* jsonify({"error": {...}}), status: the session layer's error responses.
AuthError(status, code, message) ==
    Resp(status, "AuthenticationError", code, message, <<>>)
\* json_abort(status_code, error_code, message)
json_abort(status_code, error_code, message) ==
    Resp(status_code, "SynthesisError", error_code, message, <<>>)
\* What Flask answers when a view raises an exception it does not catch.
InternalServerError(exc) == Resp(500, "", "", exc, <<>>)

\* The Content-Type of a response: jsonify and json_abort set
\* application/json, serve_index text/html, synthesize_speech
\* application/octet-stream; a string returned to Flask and Flask's own
\* error page are text/html.
ContentType(r) ==
    IF r.type \in {"AuthenticationError", "SynthesisError"} THEN "application/json"
    ELSE IF r.type = "" THEN "text/html"
    ELSE r.type
\* The headers the handlers put on a response: Content-Type and no other.
\* (Flask and flask_cors add headers of their own, none taken from the
\* request's X-Request-Id.)
ResponseHeaders(r) == Header("Content-Type", ContentType(r))

\* ---------------------------------------------------------- request bodies
\* A request body: its content type, what parsing it as JSON gives
\* ("malformed" when it does not parse, else the kind of the JSON value),
\* and, for an object, its "text" member: absent, or a value of some type
\* (s is the string when the type is "string").
Body(ctype, parse, t, s) == [ctype |-> ctype, parse |-> parse, t |-> t, s |-> s]
\* request.is_json
is_json(body) == body.ctype = "application/json"
\* The outcome of a computation: a value, a response returned early, or an
\* exception raised.
Value(text) == [kind |-> "value", text |-> text, resp |-> NoResp, exc |-> ""]
Return(resp) == [kind |-> "return", text |-> <<>>, resp |-> resp, exc |-> ""]
Raise(exc) == [kind |-> "raise", text |-> <<>>, resp |-> NoResp, exc |-> exc]
\* Python's ValueError and its subclasses among the exceptions of the model.
IsValueError(exc) == exc \in {"ValueError"}
\* The except clauses of synthesize_speech, for an exception of class exc
\* whose str() is text.
HandleException(exc, text) ==
    IF IsValueError(exc) THEN json_abort(400, "INVALID_REQUEST", text)
    ELSE json_abort(500, "SYNTHESIS_FAILED", "Failed to synthesize speech")
\* Mutant of TooLong: the limit is one character too high.
TooLongOffByOne(text) == StrLen(text) > MAX_TEXT_LENGTH + 1
\* The text-length test of synthesize_speech.
TooLong(text) == StrLen(text) > MAX_TEXT_LENGTH
\* Mutant of ValidateBody: the length is tested first, on the text as sent.
ValidateBodyLengthFirst(body) ==
    IF ~is_json(body)
    THEN Return(json_abort(400, "INVALID_REQUEST", "Request body must be JSON"))
    ELSE IF body.parse = "malformed" THEN Raise("BadRequest")
    ELSE IF body.parse # "object" THEN Raise("AttributeError")
    ELSE IF body.t \notin {"absent", "string"} THEN Raise("AttributeError")
    ELSE IF StrLen(body.s) > MAX_TEXT_LENGTH
    THEN Return(json_abort(400, "TEXT_TOO_LONG",
                           "Text exceeds maximum length of 2000 characters"))
    ELSE IF StrLen(Strip(body.s)) = 0
    THEN Return(json_abort(400, "INVALID_REQUEST",
                           "Text field is required and cannot be empty"))
    ELSE Value(Strip(body.s))
\* synthesize_speech up to the provider call: the stripped text to
\* synthesize, or the response returned, or the exception raised.
\* request.get_json() raises BadRequest on a body that does not parse;
\* data.get and .strip() raise AttributeError on a value without them.
ValidateBody(body) ==
    IF ~is_json(body)
    THEN Return(json_abort(400, "INVALID_REQUEST", "Request body must be JSON"))
    ELSE IF body.parse = "malformed" THEN Raise("BadRequest")
    ELSE IF body.parse # "object" THEN Raise("AttributeError")
    ELSE IF body.t \notin {"absent", "string"} THEN Raise("AttributeError")
    ELSE LET text == Strip(IF body.t = "absent" THEN <<>> ELSE body.s)
         IN  IF StrLen(text) = 0
             THEN Return(json_abort(400, "INVALID_REQUEST",
                                    "Text field is required and cannot be empty"))
             ELSE IF TooLong(text)
             THEN Return(json_abort(400, "TEXT_TOO_LONG",
                                    "Text exceeds maximum length of 2000 characters"))
             ELSE Value(text)

\* ------------------------------------------------------------------ inputs
\* The nonce strings token_hex can return.
NonceOf(n) == <<n>>
NonceKeys == {NonceOf(n) : n \in NonceIds}
\* A nonce string token_hex never returns: what a client can make up, since
\* it cannot guess a value of token_hex.
BogusNonce == NonceOf(MaxNonces + 1)
\* The value of the X-Request-Id header of the requests that carry one.
RequestId == <<"r", "1">>
\* The headers of a GET /api/session request, for a client that holds the
\* nonces of the set known: no X-Session-Nonce, an empty one, a nonce of a
\* page, a made-up one.
SessionHeaders(known) ==
    {NoHeaders} \cup {Header("X-Session-Nonce", v) : v \in {<<>>, BogusNonce} \cup known}
    \cup {WithHeader(h, "X-Request-Id", RequestId) :
            h \in {NoHeaders} \cup {Header("X-Session-Nonce", v) : v \in known}}
\* An expiry (seconds) later than every clock value of a run.
FarExp == (MaxAdvances + 2) * JWT_EXPIRY
\* Tokens a client can make without the server's secret: signed with
\* another secret (expired and not), unsigned, of one segment, empty.
ForgedTokens ==
    {jwt_encode([iat |-> 0, exp |-> e], OTHER_SECRET) : e \in {0, FarExp}}
    \cup {<<JoseHeader("none"), [iat |-> 0, exp |-> FarExp], NoSignature>>}
    \cup {<<JoseHeader("HS256")>>, <<>>}
\* An issued token with its expiry pushed back and its signature kept.
Tampered(token) == <<token[1], [token[2] EXCEPT !.exp = FarExp], token[3]>>
\* The headers of a POST /api/text-to-speech request, for a client that
\* holds the tokens of the set known.
SynthHeaders(known) ==
    {NoHeaders, Header("Authorization", BearerNoSpace)}
    \cup {Header("Authorization", BearerPrefix \o tok) :
            tok \in known \cup ForgedTokens \cup {Tampered(k) : k \in known}}
    \cup {Header("Authorization", LowerPrefix \o tok) : tok \in known}
    \cup {WithHeader(h, "X-Request-Id", RequestId) :
            h \in {NoHeaders}
                 \cup {Header("Authorization", BearerPrefix \o tok) : tok \in known}}
\* The texts of the requests.
Texts ==
    { <<>>,
      <<Run(" ", 1)>>,
      <<Run(" ", MAX_TEXT_LENGTH + 1)>>,
      <<Run("x", 1)>>,
      <<Run("x", MAX_TEXT_LENGTH)>>,
      <<Run("x", MAX_TEXT_LENGTH + 1)>>,
      <<Run(" ", 1), Run("x", MAX_TEXT_LENGTH), Run("\n", 1)>>,
      <<Run("x", MAX_TEXT_LENGTH - 1), Run(" ", 2)>>,
      <<Run("\t", 1), Run("x", MAX_TEXT_LENGTH + 1)>> }
NoBody == Body("", "", "", <<>>)
Bodies ==
    { Body("text/plain", "object", "string", <<Run("x", 1)>>),
      Body("application/json", "malformed", "absent", <<>>),
      Body("application/json", "null", "absent", <<>>),
      Body("application/json", "array", "absent", <<>>),
      Body("application/json", "object", "absent", <<>>),
      Body("application/json", "object", "number", <<>>),
      Body("application/json", "object", "null", <<>>) }
    \cup {Body("application/json", "object", "string", s) : s \in Texts}
\* An exception raised by the provider call: its class and its text.
ProviderError(exc, text) == [exc |-> exc, text |-> text]
NoError == ProviderError("", "")
\* What the provider call does: it returns audio (NoError), or raises.  The
\* SDK reports a refusal of the provider as ApiError with the provider's
\* text, a network failure as ConnectError; a ValueError raised inside the
\* call reaches the same except clauses.
ProviderOutcomes ==
    { NoError,
      ProviderError("ApiError", "quota exceeded"),
      ProviderError("ApiError", "invalid model"),
      ProviderError("ApiError", "text is too long"),
      ProviderError("ConnectError", "connection refused"),
      ProviderError("ValueError", "invalid value") }

\* ------------------------------------------------------------------- state
VARIABLES
    clock,                \* the wall clock, in ticks
    advances,             \* times the clock advanced
    started,              \* requests started
    REQUIRE_NONCE,        \* bool(os.environ.get("SESSION_SECRET"))
    index_html_template,  \* whether _index_html_template is a non-empty string
    session_nonces,       \* the nonce store: nonce -> expiry (ticks)
    pc,                   \* where each request thread is
    loc,                  \* each thread's request and local variables
    resp,                 \* each thread's response, once it has one
    pages,                \* the nonces sent to clients, in pages
    issued,               \* the tokens sent to clients
    hexed,                \* the nonce ids token_hex has returned
    generated,            \* history: the expiry each stored nonce was given
    presented,            \* history: the nonces consume_nonce was called with
    accepted,             \* history: times consume_nonce returned True, by nonce
    minted,               \* history: tokens get_session made, by nonce presented
    swept                 \* history: the nonces cleanup_nonces removed

vars == <<clock, advances, started, REQUIRE_NONCE, index_html_template,
          session_nonces, pc, loc, resp, pages, issued, hexed, generated,
          presented, accepted, minted, swept>>
config == <<REQUIRE_NONCE, index_html_template>>
clients == <<pages, issued>>
history == <<generated, presented, accepted, minted, swept>>

NoRoute == ""
InitLoc ==
    [route |-> NoRoute, headers |-> NoHeaders, now |-> 0, pos |-> 0, used |-> 0,
     len |-> 0, expired |-> <<>>, nonce |-> <<>>, expiry |-> 0, iat |-> 0,
     first |-> FALSE, made |-> 0, entered |-> FALSE, body |-> NoBody,
     text |-> <<>>, called |-> FALSE, error |-> NoError, asked |-> 0,
     removed |-> {}]

Init ==
    /\ clock = 0
    /\ advances = 0
    /\ started = 0
    /\ REQUIRE_NONCE \in BOOLEAN
    /\ index_html_template \in BOOLEAN
    /\ session_nonces = <<>>
    /\ pc = [t \in Threads |-> "idle"]
    /\ loc = [t \in Threads |-> InitLoc]
    /\ resp = [t \in Threads |-> NoResp]
    /\ pages = {}
    /\ issued = {}
    /\ hexed = {}
    /\ generated = [k \in {} |-> 0]
    /\ presented = {}
    /\ accepted = [k \in NonceKeys |-> 0]
    /\ minted = [k \in NonceKeys |-> 0]
    /\ swept = {}

\* The thread's handler returns (or raises to Flask) and r is its response.
Finish(t, r) ==
    /\ pc' = [pc EXCEPT ![t] = "done"]
    /\ resp' = [resp EXCEPT ![t] = r]
Goto(t, label) ==
    /\ pc' = [pc EXCEPT ![t] = label]
    /\ UNCHANGED resp

\* The clock advances.
Tick(d) ==
    /\ advances < MaxAdvances
    /\ clock' = clock + d
    /\ advances' = advances + 1
    /\ UNCHANGED <<started, config, session_nonces, pc, loc, resp, clients, hexed,
                   history>>

\* ------------------------------------------------------------------ GET /
\* Threads in serve_index that have not drawn their nonce yet.
BeforeHex == {t \in Threads : pc[t] \in {"cl_now", "cl_iter", "cl_next", "cl_del", "gn_time"}}
\* serve_index, up to the call of cleanup_nonces.
ServeIndex(t) ==
    /\ pc[t] = "idle"
    /\ started < MaxRequests
    /\ index_html_template => Cardinality(hexed) + Cardinality(BeforeHex) < MaxNonces
    /\ started' = started + 1
    /\ loc' = [loc EXCEPT ![t].route = "/"]
    /\ IF ~index_html_template
       THEN Finish(t, Resp(404, "", "", "Frontend not built. Run make build first.", <<>>))
       ELSE Goto(t, "cl_now")
    /\ UNCHANGED <<clock, advances, config, session_nonces, clients, hexed, history>>

\* cleanup_nonces: now = time.time()
CleanupNow(t) ==
    /\ pc[t] = "cl_now"
    /\ loc' = [loc EXCEPT ![t].now = clock]
    /\ Goto(t, "cl_iter")
    /\ UNCHANGED <<clock, advances, started, config, session_nonces, clients, hexed,
                   history>>

\* cleanup_nonces: the iterator over session_nonces.items() is made; it
\* remembers the size of the dict.
CleanupIter(t) ==
    /\ pc[t] = "cl_iter"
    /\ loc' = [loc EXCEPT ![t].pos = 0, ![t].used = Used(session_nonces),
                          ![t].len = Used(session_nonces), ![t].expired = <<>>]
    /\ Goto(t, "cl_next")
    /\ UNCHANGED <<clock, advances, started, config, session_nonces, clients, hexed,
                   history>>

\* Mutant of IsExpired: an entry at its expiry instant is not expired yet.
IsExpiredAfter(now, v) == now > v
\* Mutant of IsExpired: the sweep takes every entry for expired.
IsExpiredAlways(now, v) == TRUE
\* The test of the comprehension of cleanup_nonces.
IsExpired(now, v) == now >= v

\* cleanup_nonces: one step of the comprehension.  The iterator raises
\* RuntimeError when the dict changed size since it was made, or when it
\* finds an entry after it has yielded as many as the dict held; it stops at
\* the end of the entry array; else it yields the next entry, which the
\* comprehension keeps when it is expired.
CleanupNext(t) ==
    /\ pc[t] = "cl_next"
    /\ LET d == session_nonces
           l == loc[t]
           i == NextLive(d, l.pos)
       IN  IF Used(d) # l.used
           THEN Finish(t, InternalServerError("RuntimeError")) /\ UNCHANGED loc
           ELSE IF i = 0
           THEN Goto(t, IF l.expired = <<>> THEN "gn_time" ELSE "cl_del") /\ UNCHANGED loc
           ELSE IF l.len = 0
           THEN Finish(t, InternalServerError("RuntimeError")) /\ UNCHANGED loc
           ELSE /\ loc' = [loc EXCEPT ![t].pos = i, ![t].len = l.len - 1,
                                      ![t].expired = IF IsExpired(l.now, d[i].v)
                                                     THEN Append(l.expired, d[i].k)
                                                     ELSE l.expired]
                /\ Goto(t, "cl_next")
    /\ UNCHANGED <<clock, advances, started, config, session_nonces, clients, hexed,
                   history>>

\* cleanup_nonces: del session_nonces[k] for the next k of expired; KeyError
\* when another request removed k since the comprehension saw it.
\* loc.removed and swept keep the nonces removed, by this sweep and by all.
CleanupDel(t) ==
    /\ pc[t] = "cl_del"
    /\ LET k == Head(loc[t].expired)
       IN  IF HasKey(session_nonces, k)
           THEN /\ session_nonces' = DelItem(session_nonces, k)
                /\ loc' = [loc EXCEPT ![t].expired = Tail(loc[t].expired),
                                      ![t].removed = @ \cup {k}]
                /\ swept' = swept \cup {k}
                /\ Goto(t, IF Tail(loc[t].expired) = <<>> THEN "gn_time" ELSE "cl_del")
           ELSE /\ Finish(t, InternalServerError("KeyError"))
                /\ UNCHANGED <<session_nonces, loc, swept>>
    /\ UNCHANGED <<clock, advances, started, config, clients, hexed, generated,
                   presented, accepted, minted>>

\* The expiry generate_nonce gives a nonce made at time now.
NonceExpiry(now) == now + Secs(NONCE_TTL)

\* generate_nonce: nonce = secrets.token_hex(16), a value never returned
\* before, and the right-hand side time.time() + NONCE_TTL.
GenerateTime(t) ==
    /\ pc[t] = "gn_time"
    /\ \E n \in NonceIds \ hexed :
        /\ hexed' = hexed \cup {n}
        /\ loc' = [loc EXCEPT ![t].nonce = NonceOf(n), ![t].expiry = NonceExpiry(clock)]
    /\ Goto(t, "gn_store")
    /\ UNCHANGED <<clock, advances, started, config, session_nonces, clients, history>>

\* generate_nonce: session_nonces[nonce] = expiry; then serve_index puts the
\* nonce in the page and returns it.
GenerateStore(t) ==
    /\ pc[t] = "gn_store"
    /\ \E resize \in BOOLEAN :
        session_nonces' = SetItem(session_nonces, loc[t].nonce, loc[t].expiry, resize)
    /\ generated' = [k \in DOMAIN generated \cup {loc[t].nonce} |->
                        IF k = loc[t].nonce THEN loc[t].expiry ELSE generated[k]]
    /\ Finish(t, Resp(200, "text/html", "", "", loc[t].nonce))
    /\ UNCHANGED <<clock, advances, started, config, loc, clients, hexed, presented,
                   accepted, minted, swept>>

\* -------------------------------------------------------- GET /api/session
InvalidNonce ==
    AuthError(403, "INVALID_NONCE", "Valid session nonce required. Please refresh the page.")
\* not request.headers.get("X-Session-Nonce"): the header is absent or empty.
NotNonce(headers) ==
    \/ "X-Session-Nonce" \notin DOMAIN headers
    \/ headers["X-Session-Nonce"] = <<>>

\* Mutant of NonceRequired: the nonce is asked for in every mode.
NonceRequiredAlways(require_nonce) == TRUE
\* if REQUIRE_NONCE: the test that opens get_session.
NonceRequired(require_nonce) == require_nonce

\* get_session, up to the call of consume_nonce.
GetSession(t, h) ==
    /\ pc[t] = "idle"
    /\ started < MaxRequests
    /\ started' = started + 1
    /\ IF NonceRequired(REQUIRE_NONCE)
       THEN IF NotNonce(h)
            THEN /\ loc' = [loc EXCEPT ![t].route = "/api/session", ![t].headers = h]
                 /\ Finish(t, InvalidNonce)
            ELSE /\ loc' = [loc EXCEPT ![t].route = "/api/session", ![t].headers = h,
                                       ![t].nonce = h["X-Session-Nonce"]]
                 /\ Goto(t, "cn_pop")
       ELSE /\ loc' = [loc EXCEPT ![t].route = "/api/session", ![t].headers = h]
            /\ Goto(t, "gs_iat")
    /\ UNCHANGED <<clock, advances, config, session_nonces, clients, hexed, history>>

\* Mutant of PopItem: popitem() for pop(nonce), the last entry stored is
\* the one removed.
PopItemLast(d, nonce) ==
    DelItem(d, d[CHOOSE i \in LiveIdx(d) : \A j \in LiveIdx(d) : j <= i].k)
\* Mutant of PopItem: the entry is read and left in the store.
PopItemKeeps(d, nonce) == d
\* The store that session_nonces.pop(nonce, None) leaves when it finds an
\* entry for nonce.
PopItem(d, nonce) == DelItem(d, nonce)

\* consume_nonce: expiry = session_nonces.pop(nonce, None), one atomic
\* operation of the dict, and the return False when there was no entry.
\* loc.first tells whether this is the first time a stored nonce is
\* presented; loc.now keeps the instant consume_nonce looked at the nonce,
\* loc.asked the instant it was called.
ConsumePop(t) ==
    /\ pc[t] = "cn_pop"
    /\ presented' = presented \cup {loc[t].nonce}
    /\ IF HasKey(session_nonces, loc[t].nonce)
       THEN /\ session_nonces' = PopItem(session_nonces, loc[t].nonce)
            /\ loc' = [loc EXCEPT ![t].expiry = Get(session_nonces, loc[t].nonce),
                                  ![t].now = clock, ![t].asked = clock,
                                  ![t].first = /\ loc[t].nonce \in DOMAIN generated
                                               /\ loc[t].nonce \notin presented]
            /\ Goto(t, "cn_check")
       ELSE /\ loc' = [loc EXCEPT ![t].now = clock, ![t].asked = clock,
                                  ![t].first = /\ loc[t].nonce \in DOMAIN generated
                                               /\ loc[t].nonce \notin presented]
            /\ Finish(t, InvalidNonce)
            /\ UNCHANGED session_nonces
    /\ UNCHANGED <<clock, advances, started, config, clients, hexed, generated,
                   accepted, minted, swept>>

\* Mutant of StillValid: an entry found is good, whatever its expiry.
StillValidAlways(now, expiry) == TRUE
\* Mutant of StillValid: a nonce is still good at its expiry instant.
StillValidAtExpiry(now, expiry) == now <= expiry
\* The value consume_nonce returns for an entry it found.
StillValid(now, expiry) == now < expiry

\* consume_nonce: return time.time() < expiry.
ConsumeCheck(t) ==
    /\ pc[t] = "cn_check"
    /\ IF StillValid(clock, loc[t].expiry)
       THEN /\ accepted' = [accepted EXCEPT ![loc[t].nonce] = @ + 1]
            /\ Goto(t, "gs_iat")
       ELSE /\ Finish(t, InvalidNonce)
            /\ UNCHANGED accepted
    /\ loc' = [loc EXCEPT ![t].now = clock]
    /\ UNCHANGED <<clock, advances, started, config, session_nonces, clients,
                   hexed, generated, presented, minted, swept>>

\* get_session: "iat": int(time.time())
SessionIat(t) ==
    /\ pc[t] = "gs_iat"
    /\ loc' = [loc EXCEPT ![t].iat = IntOf(clock)]
    /\ Goto(t, "gs_exp")
    /\ UNCHANGED <<clock, advances, started, config, session_nonces, clients, hexed,
                   history>>

\* Mutant of TokenPayload: the nonce lifetime is added to the token's.
TokenPayloadLong(iat, now) == [iat |-> iat, exp |-> IntOf(now) + JWT_EXPIRY + NONCE_TTL]
\* The payload of a session token whose iat was read as iat and whose exp is
\* computed at time now.
TokenPayload(iat, now) == [iat |-> iat, exp |-> IntOf(now) + JWT_EXPIRY]

\* get_session: "exp": int(time.time()) + JWT_EXPIRY, jwt.encode and the
\* response.  loc.made keeps the instant the token was made.
SessionExp(t) ==
    /\ pc[t] = "gs_exp"
    /\ loc' = [loc EXCEPT ![t].made = clock]
    /\ Finish(t, Resp(200, "application/json", "", "",
                      jwt_encode(TokenPayload(loc[t].iat, clock), SESSION_SECRET)))
    /\ minted' = IF REQUIRE_NONCE
                 THEN [minted EXCEPT ![loc[t].nonce] = @ + 1]
                 ELSE minted
    /\ UNCHANGED <<clock, advances, started, config, session_nonces, clients, hexed,
                   generated, presented, accepted, swept>>

\* ------------------------------------------------ POST /api/text-to-speech
KnownTokens == {i.token : i \in issued}

\* A request arrives; the decorator has not run yet.
Synthesize(t, h) ==
    /\ pc[t] = "idle"
    /\ started < MaxRequests
    /\ started' = started + 1
    /\ loc' = [loc EXCEPT ![t].route = "/api/text-to-speech", ![t].headers = h]
    /\ Goto(t, "rs_auth")
    /\ UNCHANGED <<clock, advances, config, session_nonces, clients, hexed, history>>

\* request.headers.get("Authorization", "")
AuthHeader(headers) ==
    IF "Authorization" \in DOMAIN headers THEN headers["Authorization"] ELSE <<>>

\* The decorated function of require_session at time now: the 401 response
\* it returns, or NoResp when it calls the wrapped handler.
RequireSessionCheck(headers, now) ==
    LET auth_header == AuthHeader(headers)
        decoded == jwt_decode(TokenOf(auth_header), SESSION_SECRET, now)
    IN  IF ~StartsWithBearer(auth_header)
        THEN AuthError(401, "MISSING_TOKEN",
                       "Authorization header with Bearer token is required")
        ELSE IF decoded = "ExpiredSignatureError"
        THEN AuthError(401, "INVALID_TOKEN", "Session expired, please refresh the page")
        ELSE IF decoded # "ok"
        THEN AuthError(401, "INVALID_TOKEN", "Invalid session token")
        ELSE NoResp

\* require_session: the whole check, at one reading of the clock (kept in
\* loc.now); on success the wrapped handler is entered.
RequireSession(t) ==
    /\ pc[t] = "rs_auth"
    /\ LET r == RequireSessionCheck(loc[t].headers, clock)
       IN  IF r = NoResp
           THEN /\ loc' = [loc EXCEPT ![t].now = clock, ![t].entered = TRUE]
                /\ Goto(t, "sy_body")
           ELSE /\ loc' = [loc EXCEPT ![t].now = clock]
                /\ Finish(t, r)
    /\ UNCHANGED <<clock, advances, started, config, session_nonces, clients, hexed,
                   history>>

\* synthesize_speech, from its first line to the provider call: the body is
\* read and validated.
SynthBody(t) ==
    /\ pc[t] = "sy_body"
    /\ \E body \in Bodies :
        LET o == ValidateBody(body)
        IN  /\ loc' = [loc EXCEPT ![t].body = body, ![t].text = o.text]
            /\ IF o.kind = "value" THEN Goto(t, "sy_call")
               ELSE IF o.kind = "return" THEN Finish(t, o.resp)
               ELSE Finish(t, HandleException(o.exc, o.exc))
    /\ UNCHANGED <<clock, advances, started, config, session_nonces, clients, hexed,
                   history>>

\* synthesize_speech: the provider call and what follows it.
SynthCall(t) ==
    /\ pc[t] = "sy_call"
    /\ \E out \in ProviderOutcomes :
        /\ loc' = [loc EXCEPT ![t].called = TRUE, ![t].error = out]
        /\ IF out = NoError
           THEN Finish(t, Resp(200, "application/octet-stream", "", "", <<"audio">>))
           ELSE Finish(t, HandleException(out.exc, out.text))
    /\ UNCHANGED <<clock, advances, started, config, session_nonces, clients, hexed,
                   history>>

\* ----------------------------------------------------------------- server
\* The response is sent and the thread is free again; a token sent is one
\* the clients hold from now on.
Respond(t) ==
    /\ pc[t] = "done"
    /\ issued' = IF loc[t].route = "/api/session" /\ resp[t].status = 200
                 THEN issued \cup {[token |-> resp[t].payload, at |-> loc[t].made]}
                 ELSE issued
    /\ pages' = IF loc[t].route = "/" /\ resp[t].status = 200
                THEN pages \cup {resp[t].payload}
                ELSE pages
    /\ pc' = [pc EXCEPT ![t] = "idle"]
    /\ loc' = [loc EXCEPT ![t] = InitLoc]
    /\ resp' = [resp EXCEPT ![t] = NoResp]
    /\ UNCHANGED <<clock, advances, started, config, session_nonces, hexed, history>>

Next ==
    \/ \E d \in TickSteps : Tick(d)
    \/ \E t \in Threads :
        \/ ServeIndex(t)
        \/ CleanupNow(t)
        \/ CleanupIter(t)
        \/ CleanupNext(t)
        \/ CleanupDel(t)
        \/ GenerateTime(t)
        \/ GenerateStore(t)
        \/ \E h \in SessionHeaders(pages) : GetSession(t, h)
        \/ ConsumePop(t)
        \/ ConsumeCheck(t)
        \/ SessionIat(t)
        \/ SessionExp(t)
        \/ \E h \in SynthHeaders(KnownTokens) : Synthesize(t, h)
        \/ RequireSession(t)
        \/ SynthBody(t)
        \/ SynthCall(t)
        \/ Respond(t)

Spec == Init /\ [][Next]_vars

\* The same server with its requests served one after the other: a request
\* starts only when no other is being served, so that the calls of
\* generate_nonce, consume_nonce and cleanup_nonces form a sequence.
AllIdle == \A t \in Threads : pc[t] = "idle"
SeqNext ==
    \/ \E d \in TickSteps : Tick(d)
    \/ \E t \in Threads :
        \/ AllIdle /\ ServeIndex(t)
        \/ CleanupNow(t)
        \/ CleanupIter(t)
        \/ CleanupNext(t)
        \/ CleanupDel(t)
        \/ GenerateTime(t)
        \/ GenerateStore(t)
        \/ \E h \in SessionHeaders(pages) : AllIdle /\ GetSession(t, h)
        \/ ConsumePop(t)
        \/ ConsumeCheck(t)
        \/ SessionIat(t)
        \/ SessionExp(t)
        \/ \E h \in SynthHeaders(KnownTokens) : AllIdle /\ Synthesize(t, h)
        \/ RequireSession(t)
        \/ SynthBody(t)
        \/ SynthCall(t)
        \/ Respond(t)

SpecSeq == Init /\ [][SeqNext]_vars

\* ================================================================= claims
IsSession(t) == loc[t].route = "/api/session"
IsSynth(t) == loc[t].route = "/api/text-to-speech"
\* The request of thread t went through require_session.
Decided(t) == IsSynth(t) /\ pc[t] \in {"sy_body", "sy_call", "done"}
\* The Authorization header of the request is "Bearer " and a token.
HasBearer(t) ==
    /\ "Authorization" \in DOMAIN loc[t].headers
    /\ Len(loc[t].headers["Authorization"]) >= Len(BearerPrefix)
    /\ \A i \in 1..Len(BearerPrefix) :
          loc[t].headers["Authorization"][i] = BearerPrefix[i]
\* What follows "Bearer " in it.
BearerToken(t) ==
    SubSeq(loc[t].headers["Authorization"], Len(BearerPrefix) + 1,
           Len(loc[t].headers["Authorization"]))
\* The token's signature is the server's over the token's own segments.
Verifies(token) ==
    /\ Len(token) = 3
    /\ token[3] = Sign(token[1], token[2], SESSION_SECRET)
\* The token is of three segments, signed over them with another secret.
SignedWithOther(token) ==
    /\ Len(token) = 3
    /\ token[3].msg = <<token[1], token[2]>>
    /\ token[3].key # SESSION_SECRET
\* The request was answered 401 with this code before the handler ran.
Blocked(t, code) ==
    /\ pc[t] = "done"
    /\ resp[t].status = 401
    /\ resp[t].type = "AuthenticationError"
    /\ resp[t].code = code
    /\ ~loc[t].entered
    /\ loc[t].body = NoBody
    /\ ~loc[t].called
IsToken(r) == r.status = 200 /\ Len(r.payload) = 3

\* C1: no double-spend.  Over a whole run, whatever the interleaving of
\* requests, consume_nonce returns True at most once for each nonce.
C1_NoDoubleSpend == \A k \in NonceKeys : accepted[k] <= 1

\* Two requests presented the same nonce at the same time: one call of
\* consume_nonce returned True, the other returned False.
C1_Witness ==
    \E t, u \in Threads :
        /\ t # u /\ IsSession(t) /\ IsSession(u)
        /\ loc[t].nonce = loc[u].nonce
        /\ pc[t] \in {"gs_iat", "gs_exp"}
        /\ pc[u] = "done" /\ resp[u] = InvalidNonce
        /\ accepted[loc[t].nonce] = 1
        /\ loc[u].nonce \in DOMAIN generated

\* C2: with nonce mode on, GET /api/session answers with a token only for a
\* non-empty nonce that consume_nonce accepted (a stored nonce, presented
\* for the first time, before its expiry), and with 403 INVALID_NONCE in
\* every other case; no nonce ever mints two tokens.
C2_TokenOnlyForValidNonce ==
    REQUIRE_NONCE =>
        /\ \A k \in NonceKeys : minted[k] <= 1 /\ minted[k] <= accepted[k]
        /\ \A t \in Threads :
            IsSession(t) /\ pc[t] = "done" =>
                IF resp[t].status = 200
                THEN /\ IsToken(resp[t])
                     /\ ~NotNonce(loc[t].headers)
                     /\ loc[t].first
                     /\ loc[t].now < generated[loc[t].nonce]
                ELSE resp[t] = InvalidNonce

\* A nonce minted a token, and a second request with the same nonce got
\* 403 INVALID_NONCE.
C2_Witness ==
    /\ REQUIRE_NONCE
    /\ \E t \in Threads :
        /\ IsSession(t) /\ pc[t] = "done" /\ resp[t] = InvalidNonce
        /\ loc[t].nonce \in NonceKeys
        /\ minted[loc[t].nonce] = 1
        /\ ~loc[t].first

\* C3: with nonce mode on, a stored nonce presented for the first time, and
\* looked at by consume_nonce strictly before its expiry (less than
\* NONCE_TTL after it was generated), yields a token, whatever page renders,
\* sweeps and other session requests came in between; and a token the
\* clients hold that reaches require_session before its expiry is let
\* through.
C3_FreshNonceYieldsToken ==
    /\ REQUIRE_NONCE =>
        \A t \in Threads :
            (/\ IsSession(t) /\ pc[t] = "done"
             /\ loc[t].first
             /\ loc[t].now < generated[loc[t].nonce])
            => IsToken(resp[t])
    /\ \A t \in Threads :
        (/\ Decided(t) /\ HasBearer(t)
         /\ BearerToken(t) \in KnownTokens
         /\ loc[t].now < Secs(BearerToken(t)[2].exp))
        => loc[t].entered

\* A nonce is exchanged for a token one tick before its expiry, in a run
\* with another page render.
C3_Witness ==
    /\ REQUIRE_NONCE
    /\ \E t \in Threads :
        /\ IsSession(t) /\ pc[t] = "done" /\ loc[t].first
        /\ loc[t].now = generated[loc[t].nonce] - 1
        /\ IsToken(resp[t])
        /\ Cardinality(DOMAIN generated) > 1

\* C4: require_session lets a request with a Bearer token through to the
\* handler exactly when the token's signature verifies against
\* SESSION_SECRET and the time of the check is strictly before the token's
\* exp; otherwise it answers 401 and the handler does not run.
C4_AcceptedIffSignedAndUnexpired ==
    \A t \in Threads :
        Decided(t) /\ HasBearer(t) =>
            /\ loc[t].entered <=>
                  (/\ Verifies(BearerToken(t))
                   /\ loc[t].now < Secs(BearerToken(t)[2].exp))
            /\ ~loc[t].entered => Blocked(t, "INVALID_TOKEN")

\* A token of the server is rejected at the very instant of its exp, while
\* another request, checked earlier with the same token, is in the handler.
C4_Witness ==
    \E t, u \in Threads :
        /\ Decided(t) /\ HasBearer(t) /\ Verifies(BearerToken(t))
        /\ loc[t].now = Secs(BearerToken(t)[2].exp)
        /\ Blocked(t, "INVALID_TOKEN")
        /\ Decided(u) /\ loc[u].entered
        /\ loc[u].headers = loc[t].headers

\* C5: a token of GET /api/session is accepted by require_session when the
\* clock is the instant the token was made, and rejected when the clock is
\* that instant plus JWT_EXPIRY + 1 seconds.
C5_TokenLifetime ==
    \A t \in Threads : \A i \in issued :
        Decided(t) /\ HasBearer(t) /\ BearerToken(t) = i.token =>
            /\ loc[t].now = i.at => loc[t].entered
            /\ loc[t].now = i.at + Secs(JWT_EXPIRY + 1) => Blocked(t, "INVALID_TOKEN")

\* A token is rejected one hour and one second after it was made.
C5_Witness ==
    \E t \in Threads : \E i \in issued :
        /\ Decided(t) /\ HasBearer(t) /\ BearerToken(t) = i.token
        /\ loc[t].now = i.at + Secs(JWT_EXPIRY + 1)
        /\ Blocked(t, "INVALID_TOKEN")

\* C6: a token signed with another secret than SESSION_SECRET is rejected
\* with 401 INVALID_TOKEN, its exp being in the future or in the past, and
\* the handler does not run.
C6_OtherSecretRejected ==
    \A t \in Threads :
        Decided(t) /\ HasBearer(t) /\ SignedWithOther(BearerToken(t))
        => Blocked(t, "INVALID_TOKEN")

\* Two requests with tokens signed with another secret, one expired and one
\* not, were both rejected.
C6_Witness ==
    \E t, u \in Threads :
        /\ Decided(t) /\ HasBearer(t) /\ SignedWithOther(BearerToken(t))
        /\ Decided(u) /\ HasBearer(u) /\ SignedWithOther(BearerToken(u))
        /\ Secs(BearerToken(t)[2].exp) > clock
        /\ Secs(BearerToken(u)[2].exp) <= loc[u].now
        /\ Blocked(t, "INVALID_TOKEN") /\ Blocked(u, "INVALID_TOKEN")

\* C7: check before side effect.  The body of a POST /api/text-to-speech
\* request is read and the provider called only after require_session let
\* the request through; a request whose Authorization header does not start
\* with "Bearer " is answered 401 MISSING_TOKEN, one whose token is not
\* valid 401 INVALID_TOKEN, and for both the handler is never entered.
C7_CheckBeforeSideEffect ==
    \A t \in Threads :
        /\ pc[t] \in {"sy_body", "sy_call"} => loc[t].entered
        /\ loc[t].body # NoBody \/ loc[t].called => loc[t].entered
        /\ Decided(t) /\ ~HasBearer(t) => Blocked(t, "MISSING_TOKEN")
        /\ (/\ Decided(t) /\ HasBearer(t)
            /\ ~(/\ Verifies(BearerToken(t))
                 /\ loc[t].now < Secs(BearerToken(t)[2].exp)))
           => Blocked(t, "INVALID_TOKEN")

\* A request that carries a good token under the scheme "bearer " is
\* answered 401 MISSING_TOKEN.
C7_Witness ==
    \E t \in Threads :
        /\ Decided(t) /\ ~HasBearer(t)
        /\ "Authorization" \in DOMAIN loc[t].headers
        /\ SubSeq(loc[t].headers["Authorization"], Len(LowerPrefix) + 1,
                  Len(loc[t].headers["Authorization"])) \in KnownTokens
        /\ Blocked(t, "MISSING_TOKEN")

\* The handler of thread t ran and read the request's body.
Handled(t) == IsSynth(t) /\ loc[t].entered /\ loc[t].body # NoBody
\* The handler answered with this error and the provider was not called.
Rejected(t, status, code) ==
    /\ pc[t] = "done"
    /\ resp[t].status = status
    /\ resp[t].type = "SynthesisError"
    /\ resp[t].code = code
    /\ ~loc[t].called
\* The body is a JSON object whose text member is a string.
HasStringText(body) == is_json(body) /\ body.parse = "object" /\ body.t = "string"
\* The runs of a text that hold a character other than white space.
Inked(text) == {i \in 1..Len(text) : text[i].n > 0 /\ ~IsSpace(text[i].c)}
Least(S) == CHOOSE i \in S : \A j \in S : i <= j
Greatest(S) == CHOOSE i \in S : \A j \in S : i >= j
\* The length of a text without its leading and trailing white space.
TrimmedLen(text) ==
    IF Inked(text) = {} THEN 0
    ELSE StrLen(SubSeq(text, Least(Inked(text)), Greatest(Inked(text))))

\* C8, as stated: an authenticated request whose text has more than 2000
\* characters is answered 400 TEXT_TOO_LONG and the provider is not called.
C8_LongTextRejected ==
    \A t \in Threads :
        (/\ Handled(t) /\ HasStringText(loc[t].body)
         /\ StrLen(loc[t].body.s) > MAX_TEXT_LENGTH)
        => Rejected(t, 400, "TEXT_TOO_LONG")

\* C8, amended: an authenticated request whose text, once its leading and
\* trailing white space is removed, has more than 2000 characters is
\* answered 400 TEXT_TOO_LONG and the provider is not called.
C8_LongTrimmedTextRejected ==
    \A t \in Threads :
        (/\ Handled(t) /\ HasStringText(loc[t].body)
         /\ TrimmedLen(loc[t].body.s) > MAX_TEXT_LENGTH)
        => Rejected(t, 400, "TEXT_TOO_LONG")

\* A text of 2001 characters after white space was answered TEXT_TOO_LONG.
C8_Witness ==
    \E t \in Threads :
        /\ Handled(t) /\ HasStringText(loc[t].body)
        /\ TrimmedLen(loc[t].body.s) = MAX_TEXT_LENGTH + 1
        /\ StrLen(loc[t].body.s) > TrimmedLen(loc[t].body.s)
        /\ Rejected(t, 400, "TEXT_TOO_LONG")

\* C9: an authenticated request whose body is not JSON content, or does not
\* parse, or is not an object with a string text member, is answered
\* 400 INVALID_REQUEST and the provider is not called.
C9_UnparseableBodyRejected ==
    \A t \in Threads :
        Handled(t) /\ ~HasStringText(loc[t].body)
        => Rejected(t, 400, "INVALID_REQUEST")

\* C10: an authenticated request whose text is missing, empty or only white
\* space is answered 400 INVALID_REQUEST and the provider is not called,
\* whatever the length of the text.
C10_BlankTextRejected ==
    \A t \in Threads :
        (/\ Handled(t) /\ is_json(loc[t].body) /\ loc[t].body.parse = "object"
         /\ \/ loc[t].body.t = "absent"
            \/ /\ loc[t].body.t = "string"
               /\ Inked(loc[t].body.s) = {})
        => Rejected(t, 400, "INVALID_REQUEST")

\* A text of more than 2000 characters, all white space, was answered
\* INVALID_REQUEST.
C10_Witness ==
    \E t \in Threads :
        /\ Handled(t) /\ HasStringText(loc[t].body)
        /\ Inked(loc[t].body.s) = {}
        /\ StrLen(loc[t].body.s) > MAX_TEXT_LENGTH
        /\ Rejected(t, 400, "INVALID_REQUEST")

\* The provider call of thread t's request was made and it raised.
ProviderFailed(t) ==
    IsSynth(t) /\ pc[t] = "done" /\ loc[t].called /\ loc[t].error # NoError
\* The text of a provider error tells that the text sent was too long.
SaysTooLong(text) == text \in {"text is too long"}
\* The handler answered with this error.
Answered(t, status, code) ==
    /\ pc[t] = "done"
    /\ resp[t].status = status
    /\ resp[t].type = "SynthesisError"
    /\ resp[t].code = code

\* C11: when the provider call fails for a request that passed validation,
\* the answer is 500 SYNTHESIS_FAILED, except that an error whose text tells
\* of a text too long is answered 400 TEXT_TOO_LONG; no provider failure is
\* answered with another code.
C11_ProviderFailureCodes ==
    \A t \in Threads :
        ProviderFailed(t) =>
            IF SaysTooLong(loc[t].error.text)
            THEN Answered(t, 400, "TEXT_TOO_LONG")
            ELSE Answered(t, 500, "SYNTHESIS_FAILED")

\* C12: the response to a request that carries an X-Request-Id header
\* carries an X-Request-Id header of the same value, be it a success or an
\* error (authentication, validation, provider).
C12_RequestIdEchoed ==
    \A t \in Threads :
        pc[t] = "done" /\ "X-Request-Id" \in DOMAIN loc[t].headers =>
            /\ "X-Request-Id" \in DOMAIN ResponseHeaders(resp[t])
            /\ ResponseHeaders(resp[t])["X-Request-Id"] = loc[t].headers["X-Request-Id"]

\* consume_nonce was called for thread t's request and has returned.
ConsumeReturned(t) ==
    /\ REQUIRE_NONCE /\ IsSession(t) /\ ~NotNonce(loc[t].headers)
    /\ pc[t] \in {"gs_iat", "gs_exp", "done"}
\* The value it returned.
ConsumeResult(t) == ~(pc[t] = "done" /\ resp[t] = InvalidNonce)

\* C13: consume_nonce returns False for a nonce that was never generated,
\* for one that was generated and then removed by cleanup_nonces, and for
\* one whose expiry is at or before the time of the call.
C13_StaleNonceFails ==
    \A t \in Threads :
        (/\ ConsumeReturned(t)
         /\ \/ loc[t].nonce \notin DOMAIN generated
            \/ loc[t].nonce \in swept
            \/ generated[loc[t].nonce] <= loc[t].asked)
        => ~ConsumeResult(t)

\* consume_nonce returned False for a nonce that a sweep had removed.
C13_Witness ==
    \E t \in Threads :
        /\ ConsumeReturned(t) /\ ~ConsumeResult(t)
        /\ loc[t].nonce \in swept

\* Thread t's request is a page render, in a server that has a page.
IsRender(t) == loc[t].route = "/" /\ index_html_template

\* C14: a page render (cleanup_nonces, then generate_nonce) that runs
\* together with other page renders and with consume_nonce calls never
\* fails, whatever the interleaving, and ends with its fresh nonce stored
\* and returned in a 200 page.
C14_RenderNeverFails ==
    \A t \in Threads :
        IsRender(t) /\ pc[t] = "done" =>
            /\ resp[t].status = 200
            /\ resp[t].payload = loc[t].nonce
            /\ loc[t].nonce \in DOMAIN generated

\* C15: with nonce mode off, every GET /api/session is answered with a
\* token, whether it carries an X-Session-Nonce header or not and whatever
\* the header's value; consume_nonce is not called and the store is left as
\* it was: every nonce stored and not swept is still there, with its expiry.
C15_NoNonceModeIssues ==
    ~REQUIRE_NONCE =>
        /\ \A t \in Threads :
            IsSession(t) =>
                /\ pc[t] \in {"gs_iat", "gs_exp", "done"}
                /\ pc[t] = "done" => IsToken(resp[t])
        /\ presented = {}
        /\ \A k \in DOMAIN generated \ swept :
            /\ HasKey(session_nonces, k)
            /\ Get(session_nonces, k) = generated[k]

\* With nonce mode off, a request that carried the nonce of a page got a
\* token and the nonce is still in the store.
C15_Witness ==
    /\ ~REQUIRE_NONCE
    /\ \E t \in Threads :
        /\ IsSession(t) /\ pc[t] = "done" /\ IsToken(resp[t])
        /\ ~NotNonce(loc[t].headers)
        /\ loc[t].headers["X-Session-Nonce"] \in DOMAIN generated
        /\ HasKey(session_nonces, loc[t].headers["X-Session-Nonce"])

\* A token the clients hold reaches require_session before its expiry.
HoldsLiveToken(t) ==
    /\ Decided(t) /\ HasBearer(t)
    /\ BearerToken(t) \in KnownTokens
    /\ loc[t].now < Secs(BearerToken(t)[2].exp)
\* Every request that carries an issued token before the token's expiry is
\* let through, the token having been used before or not.
TokenAcceptedEachTime == \A t \in Threads : HoldsLiveToken(t) => loc[t].entered
\* The step of require_session changes nothing of the server's state: not
\* the nonce store, not the configuration, not what token_hex has drawn.
VerifyChangesNothing ==
    \A t \in Threads :
        pc[t] = "rs_auth" /\ pc'[t] # "rs_auth" =>
            UNCHANGED <<session_nonces, config, hexed, clients>>

\* C16: verification is stateless and does not consume the token.  A token
\* of GET /api/session is accepted on every request made before its expiry,
\* any number of times, whatever nonces were generated, consumed or swept
\* and whatever tokens were issued in between; and verifying a token leaves
\* the server's state, the nonce store in particular, as it was.
C16_StatelessVerification == []TokenAcceptedEachTime /\ [][VerifyChangesNothing]_vars

\* Two requests with the same token were let through, at different times.
C16_Witness ==
    \E t, u \in Threads :
        /\ t # u /\ HoldsLiveToken(t) /\ HoldsLiveToken(u)
        /\ loc[t].headers = loc[u].headers
        /\ loc[t].entered /\ loc[u].entered
        /\ loc[t].now < loc[u].now

\* The nonces of the store of the same run without any sweep: those stored
\* by generate_nonce and not yet popped by consume_nonce.
UnsweptKeys == DOMAIN generated \ presented
\* What consume_nonce returns for thread t's request in the same run
\* without any sweep: its pop finds the entry when the nonce was stored and
\* not popped before, and the entry is good before its expiry.
UnsweptResult(t) == loc[t].first /\ loc[t].now < generated[loc[t].nonce]
\* cleanup_nonces has returned to thread t's page render.
SweepDone(t) == IsRender(t) /\ pc[t] \in {"gn_time", "gn_store"}

\* C17: in a sequence of calls, cleanup_nonces removes exactly the entries
\* whose expiry is at or before its now and leaves the others in place,
\* each with the expiry it was stored with; and every call of consume_nonce
\* returns what it returns in the same sequence without the sweeps.
C17_SweepOnlyBoundsMemory ==
    \A t \in Threads :
        /\ SweepDone(t) =>
            /\ \A k \in loc[t].removed : generated[k] <= loc[t].now
            /\ Keys(session_nonces) = {k \in UnsweptKeys : generated[k] > loc[t].now}
            /\ \A k \in Keys(session_nonces) : Get(session_nonces, k) = generated[k]
        /\ ConsumeReturned(t) => (ConsumeResult(t) <=> UnsweptResult(t))

\* A sweep removed an expired entry and left an unexpired one in place.
C17_Witness ==
    \E t \in Threads :
        /\ SweepDone(t)
        /\ loc[t].removed # {}
        /\ Keys(session_nonces) # {}

\* No nonce consume_nonce was called with is in the store.
ConsumedAbsent == \A k \in presented : ~HasKey(session_nonces, k)
\* The steps of consume_nonce.  The pop leaves the store without the nonce
\* and with every other entry as it was, adds none, and leaves the whole
\* store as it was when the nonce was not in it; the comparison of the
\* clock with the expiry does not touch the store.
ConsumeFrame ==
    \A t \in Threads :
        /\ pc[t] = "cn_pop" /\ pc'[t] # "cn_pop" =>
            /\ ~HasKey(session_nonces', loc[t].nonce)
            /\ Keys(session_nonces') = Keys(session_nonces) \ {loc[t].nonce}
            /\ \A k \in Keys(session_nonces') :
                  Get(session_nonces', k) = Get(session_nonces, k)
            /\ ~HasKey(session_nonces, loc[t].nonce) => session_nonces' = session_nonces
        /\ pc[t] = "cn_check" /\ pc'[t] # "cn_check" => session_nonces' = session_nonces

\* C18: consume_nonce(n) removes the entry of n whenever there is one, also
\* when it is expired (and then returns False); after any call n is not in
\* the store and every other entry is as it was; a call for a nonce that
\* is not in the store leaves the store as it was.
C18_ConsumeFrame == []ConsumedAbsent /\ [][ConsumeFrame]_vars

\* consume_nonce found an entry already expired when it was called,
\* removed it and returned False; another entry is still in the store.
C18_Witness ==
    \E t \in Threads :
        /\ ConsumeReturned(t) /\ ~ConsumeResult(t)
        /\ loc[t].first
        /\ generated[loc[t].nonce] <= loc[t].asked
        /\ ~HasKey(session_nonces, loc[t].nonce)
        /\ Keys(session_nonces) # {}

SessionExpired == AuthError(401, "INVALID_TOKEN", "Session expired, please refresh the page")
InvalidSessionToken == AuthError(401, "INVALID_TOKEN", "Invalid session token")

\* C19: one error code, two messages.  A token signed with SESSION_SECRET
\* whose expiry has passed is answered 401 INVALID_TOKEN with the message
\* of an expired session; a token that is malformed or whose signature does
\* not verify, expired or not, is answered 401 INVALID_TOKEN with the
\* message of an invalid token.
C19_ExpiredOrInvalid ==
    \A t \in Threads :
        Decided(t) /\ HasBearer(t) =>
            /\ (/\ Verifies(BearerToken(t))
                /\ loc[t].now >= Secs(BearerToken(t)[2].exp))
               => pc[t] = "done" /\ resp[t] = SessionExpired
            /\ ~Verifies(BearerToken(t))
               => pc[t] = "done" /\ resp[t] = InvalidSessionToken

\* An expired token of the server got the message of an expired session,
\* and an expired token signed with another secret that of an invalid
\* token.
C19_Witness ==
    \E t, u \in Threads :
        /\ Decided(t) /\ HasBearer(t) /\ Verifies(BearerToken(t))
        /\ loc[t].now >= Secs(BearerToken(t)[2].exp)
        /\ resp[t] = SessionExpired
        /\ Decided(u) /\ HasBearer(u) /\ SignedWithOther(BearerToken(u))
        /\ loc[u].now >= Secs(BearerToken(u)[2].exp)
        /\ resp[u] = InvalidSessionToken

\* C20: every token of GET /api/session has a fixed lifetime: its exp is its
\* iat plus JWT_EXPIRY exactly, the two being taken from one reading of the
\* clock, whatever the clock shows.
C20_FixedLifetime ==
    \A t \in Threads :
        IsSession(t) /\ pc[t] = "done" /\ IsToken(resp[t]) =>
            /\ resp[t].payload[2].exp = resp[t].payload[2].iat + JWT_EXPIRY
            /\ resp[t].payload[2].iat = IntOf(loc[t].made)

=============================================================================
